---- MODULE Spec2Model ----
(***************************************************************************)
(* host-backup (src/backup.py): layered configuration resolution and the   *)
(* per-directory rsync plan that main() drives through run_ssh_command.    *)
(*                                                                         *)
(* One Python process is modelled.  The module-level dictionaries          *)
(* default_global_config and default_host_config live as long as the       *)
(* process; main() may be entered several times in it (as the test-suite   *)
(* does), each entry with its own args and its own view of the files.      *)
(*                                                                         *)
(* Configuration values are a tagged union (what yaml.safe_load returns):  *)
(*   [tag |-> "str",  s |-> "..."]      a string scalar                     *)
(*   [tag |-> "bool", b |-> TRUE]       a boolean scalar                    *)
(*   [tag |-> "seq",  l |-> <<...>>]    a list of strings                   *)
(*   [tag |-> "map",  m |-> [k |-> v]]  a mapping of string keys to values  *)
(*   [tag |-> "null"]                   None (an empty YAML document)       *)
(* Strings are TLA+ strings; f-strings and str.join are \o concatenation.  *)
(***************************************************************************)
EXTENDS Naturals, Sequences, FiniteSets, TLC

VARIABLES
    default_global_config,  \* module global, backup.py:16
    default_host_config,    \* module global, backup.py:22
    args,                   \* argparse namespace of the current main()
    fs,                     \* files the run has looked at: path -> parsed content
    global_config,          \* main's local global_config
    global_is_default,      \* global_config is the default_global_config object
    host_config,            \* main's local host_config
    host_config_path,       \* load_host_config's local host_config_path
    pc,                     \* position of main()
    err,                    \* exception that ended main(), if any
    calls,                  \* run_ssh_command invocations of this run, in order
    results,                \* how each finished call ended: "ok" or the exception
    i,                      \* backup's position in the directory list
    executed,               \* commands handed to subprocess.run in this run
    merges,                 \* always_merger.merge calls of this run
    runs                    \* entries of main() so far in this process

vars == << default_global_config, default_host_config, args, fs, global_config,
           global_is_default, host_config, host_config_path, pc, err, calls,
           results, i, executed, merges, runs >>

\* How many times main() is entered in the process.
MaxRuns == 2

(***************************************************************************)
(* Values                                                                  *)
(***************************************************************************)
Str(s) == [tag |-> "str", s |-> s]
Bool(b) == [tag |-> "bool", b |-> b]
List(l) == [tag |-> "seq", l |-> l]
Map(m) == [tag |-> "map", m |-> m]
Null == [tag |-> "null"]
\* os.path.exists(path) is False
Absent == [tag |-> "absent"]
\* a local not yet bound
Unset == [tag |-> "unset"]
\* args.config / args.host_config when the option was not given (None)
NoPath == ""

IsMap(v) == v.tag = "map"
IsList(v) == v.tag = "seq"
Has(v, k) == IsMap(v) /\ k \in DOMAIN v.m

\* d[k] = v on a dict
SetItem(m, k, v) == [x \in DOMAIN m \cup {k} |-> IF x = k THEN v ELSE m[x]]

\* Python truthiness of a configuration value
Truthy(v) ==
    CASE v.tag = "bool" -> v.b
      [] v.tag = "str" -> v.s # ""
      [] v.tag = "seq" -> v.l # << >>
      [] v.tag = "map" -> DOMAIN v.m # {}
      [] OTHER -> FALSE

\* str.upper() on the host names of the model
upper(h) ==
    CASE h = "testhost" -> "TESTHOST"
      [] h = "Web01" -> "WEB01"
      [] OTHER -> h

\* os.path.join(a, b) for a without a trailing slash and a relative b
path_join(a, b) == a \o "/" \o b

(***************************************************************************)
(* The built-in layers, as written in the source                           *)
(***************************************************************************)
DefaultGlobalLiteral ==
    Map([backup_basedir |-> Str("/tmp/backupdir"),
         uppercase_hostname |-> Bool(TRUE),
         admin_host |-> Str("admin.example.com")])

DefaultHostLiteral ==
    Map([directories |-> List(<< "/var", "/etc", "/srv", "/export", "/opt" >>),
         exclusions |-> Map([d \in {"/var"} |-> List(<< "/var/lib/yum" >>)])])

(***************************************************************************)
(* deepmerge.always_merger.merge(base, nxt): lists are appended, dicts are *)
(* merged key by key, anything else (and any type conflict) is overridden  *)
(* by nxt.                                                                 *)
(***************************************************************************)
RECURSIVE MergeOverrideLists(_, _)
MergeOverrideLists(base, nxt) ==
    IF IsMap(base) /\ IsMap(nxt)
    THEN Map([k \in DOMAIN base.m \cup DOMAIN nxt.m |->
                IF k \notin DOMAIN nxt.m THEN base.m[k]
                ELSE IF k \notin DOMAIN base.m THEN nxt.m[k]
                ELSE MergeOverrideLists(base.m[k], nxt.m[k])])
    ELSE nxt

RECURSIVE Merge(_, _)
Merge(base, nxt) ==
    IF IsList(base) /\ IsList(nxt) THEN List(base.l \o nxt.l)
    ELSE IF IsMap(base) /\ IsMap(nxt)
    THEN Map([k \in DOMAIN base.m \cup DOMAIN nxt.m |->
                IF k \notin DOMAIN nxt.m THEN base.m[k]
                ELSE IF k \notin DOMAIN base.m THEN nxt.m[k]
                ELSE Merge(base.m[k], nxt.m[k])])
    ELSE nxt

\* The dict strategy updates base in place and returns it; every other
\* strategy returns a new object (or nxt itself).
MergesInPlace(base, nxt) == IsMap(base) /\ IsMap(nxt)

(***************************************************************************)
(* Inputs: command lines and file contents                                 *)
(***************************************************************************)
Hostnames == {"testhost", "Web01"}
Commands == {"backup", "restore"}
GlobalConfigPath == "/etc/host-backup/global.yml"
OverridePath == "/root/override.yml"

\* what --config may point at
GlobalFiles ==
    { Absent, Null,
      Map([backup_basedir |-> Str("/tmp/test_backups")]),
      Map([uppercase_hostname |-> Bool(FALSE)]),
      Map([host_backup_dir |-> Str("/mnt/elsewhere")]) }

\* what <host_backup_dir>/config.yml may be
HostStateFiles ==
    { Absent, Null,
      Map([directories |-> List(<< "/home" >>),
           exclusions |-> Map([d \in {"/var", "/home"} |->
                                 IF d = "/var" THEN List(<< "/var/cache" >>)
                                 ELSE List(<< "/home/tmp" >>)])]) }

\* what --host-config may point at
OverrideFiles ==
    { Absent,
      Map([directories |-> List(<< "/etc" >>)]),
      Map([exclusions |-> Map([d \in {"/etc"} |-> List(<< "/etc/ssl" >>)])]) }

NoError == [type |-> "", at |-> ""]
Raise(type, at) == [type |-> type, at |-> at]

MergeCall(fn, base, overlay) ==
    [fn |-> fn, base |-> base, overlay |-> overlay, result |-> Merge(base, overlay)]

(***************************************************************************)
(* load_global_config(args), reading default_global_config = dflt and the  *)
(* file at args.config = file.  The result names the exception raised, the *)
(* value returned, whether that value is the default_global_config object, *)
(* and default_global_config after the call.                               *)
(***************************************************************************)
load_global_config_fallback(a, dflt, file) ==
    IF a.config = NoPath \/ file = Absent
    THEN [raised |-> "", config |-> dflt, is_default |-> TRUE, dflt |-> dflt,
          merges |-> << >>]
    ELSE [raised |-> "", config |-> Merge(dflt, file),
          is_default |-> MergesInPlace(dflt, file),
          dflt |-> IF MergesInPlace(dflt, file) THEN Merge(dflt, file) ELSE dflt,
          merges |-> << MergeCall("load_global_config", dflt, file) >>]

load_global_config(a, dflt, file) ==
    IF a.config = NoPath
    THEN [raised |-> "", config |-> dflt, is_default |-> TRUE, dflt |-> dflt,
          merges |-> << >>]
    ELSE IF file = Absent
    THEN [raised |-> "FileNotFoundError", config |-> Unset, is_default |-> FALSE,
          dflt |-> dflt, merges |-> << >>]
    ELSE [raised |-> "", config |-> Merge(dflt, file),
          is_default |-> MergesInPlace(dflt, file),
          dflt |-> IF MergesInPlace(dflt, file) THEN Merge(dflt, file) ELSE dflt,
          merges |-> << MergeCall("load_global_config", dflt, file) >>]

(***************************************************************************)
(* main, lines 154-155: the normalized host name and the value assigned to *)
(* global_config["host_backup_dir"].                                       *)
(***************************************************************************)
normalized_hostname(a, gc) ==
    IF Truthy(gc.m["uppercase_hostname"]) THEN upper(a.hostname) ELSE a.hostname

assign_host_backup_dir_setdefault(a, gc) ==
    IF "host_backup_dir" \in DOMAIN gc.m THEN gc
    ELSE Map(SetItem(gc.m, "host_backup_dir",
                     Str(path_join(gc.m["backup_basedir"].s, normalized_hostname(a, gc)))))

assign_host_backup_dir(a, gc) ==
    Map(SetItem(gc.m, "host_backup_dir",
                Str(path_join(gc.m["backup_basedir"].s, normalized_hostname(a, gc)))))

(***************************************************************************)
(* load_host_config(args, global_config), reading default_host_config =    *)
(* dflt, the file at host_config_path = state and the file at              *)
(* args.host_config = override.  config starts as the default object; a    *)
(* dict-into-dict merge updates that object in place.                      *)
(***************************************************************************)
host_state_path(gc) == path_join(gc.m["host_backup_dir"].s, "config.yml")

\* lines 52-57: the persisted host state layer
merge_host_state(dflt, state) ==
    IF state = Absent
    THEN [config |-> dflt, is_default |-> TRUE, dflt |-> dflt, merges |-> << >>]
    ELSE [config |-> Merge(dflt, state),
          is_default |-> MergesInPlace(dflt, state),
          dflt |-> IF MergesInPlace(dflt, state) THEN Merge(dflt, state) ELSE dflt,
          merges |-> << MergeCall("load_host_config", dflt, state) >>]

load_host_config_fallback(a, dflt, state, override) ==
    LET s1 == merge_host_state(dflt, state)
    IN  IF a.host_config = NoPath \/ override = Absent
        THEN [raised |-> "", config |-> s1.config, dflt |-> s1.dflt, merges |-> s1.merges]
        ELSE [raised |-> "", config |-> Merge(s1.config, override),
              dflt |-> IF s1.is_default /\ MergesInPlace(s1.config, override)
                       THEN Merge(s1.config, override) ELSE s1.dflt,
              merges |-> s1.merges \o
                         << MergeCall("load_host_config", s1.config, override) >>]

\* the override layer applied below the persisted host state
load_host_config_override_first(a, dflt, state, override) ==
    IF a.host_config = NoPath
    THEN [raised |-> "", config |-> merge_host_state(dflt, state).config,
          dflt |-> merge_host_state(dflt, state).dflt,
          merges |-> merge_host_state(dflt, state).merges]
    ELSE IF override = Absent
    THEN [raised |-> "FileNotFoundError", config |-> Unset,
          dflt |-> merge_host_state(dflt, state).dflt,
          merges |-> merge_host_state(dflt, state).merges]
    ELSE LET s1 == merge_host_state(dflt, override)
             s2 == merge_host_state(s1.config, state)
         IN  [raised |-> "", config |-> s2.config,
              dflt |-> IF s1.is_default /\ s2.is_default THEN s2.config ELSE s1.dflt,
              merges |-> s1.merges \o s2.merges]

load_host_config(a, dflt, state, override) ==
    LET s1 == merge_host_state(dflt, state)
    IN  IF a.host_config = NoPath
        THEN [raised |-> "", config |-> s1.config, dflt |-> s1.dflt, merges |-> s1.merges]
        ELSE IF override = Absent
        THEN [raised |-> "FileNotFoundError", config |-> Unset, dflt |-> s1.dflt,
              merges |-> s1.merges]
        ELSE [raised |-> "", config |-> Merge(s1.config, override),
              dflt |-> IF s1.is_default /\ MergesInPlace(s1.config, override)
                       THEN Merge(s1.config, override) ELSE s1.dflt,
              merges |-> s1.merges \o
                         << MergeCall("load_host_config", s1.config, override) >>]

(***************************************************************************)
(* backup_directory: the arguments it hands to run_ssh_command, with the   *)
(* locals they are built from.                                             *)
(***************************************************************************)
RECURSIVE join(_, _)
join(sep, l) ==
    IF l = << >> THEN ""
    ELSE IF Len(l) = 1 THEN l[1]
    ELSE l[1] \o sep \o join(sep, Tail(l))

\* host_config["exclusions"].get(directory, [])
exclusions_get(hc, directory) ==
    IF directory \in DOMAIN hc.m["exclusions"].m
    THEN hc.m["exclusions"].m[directory].l
    ELSE << >>

exclude_args(hc, directory) ==
    [j \in 1..Len(exclusions_get(hc, directory)) |->
        "--exclude=" \o exclusions_get(hc, directory)[j]]

RECURSIVE all_exclusions(_, _)
all_exclusions(hc, keys) ==
    IF keys = {} THEN << >>
    ELSE LET k == CHOOSE x \in keys : TRUE
         IN  hc.m["exclusions"].m[k].l \o all_exclusions(hc, keys \ {k})

backup_directory_all_excludes(hostname, directory, gc, hc, a) ==
    LET src == hostname \o ":" \o directory
        dst == gc.m["host_backup_dir"].s \o directory
        ex == all_exclusions(hc, DOMAIN hc.m["exclusions"].m)
        ea == [j \in 1..Len(ex) |-> "--exclude=" \o ex[j]]
    IN  [admin_host |-> gc.m["admin_host"].s,
         command |-> "rsync -avxHP " \o join(" ", ea) \o " " \o src \o " " \o dst,
         no_op |-> TRUE,
         verbose |-> a.verbose,
         directory |-> directory, src |-> src, dst |-> dst, exclude_args |-> ea]

backup_directory(hostname, directory, gc, hc, a) ==
    LET src == hostname \o ":" \o directory
        dst == gc.m["host_backup_dir"].s \o directory
        ea == exclude_args(hc, directory)
    IN  [admin_host |-> gc.m["admin_host"].s,
         command |-> "rsync -avxHP " \o join(" ", ea) \o " " \o src \o " " \o dst,
         no_op |-> TRUE,
         verbose |-> a.verbose,
         directory |-> directory, src |-> src, dst |-> dst, exclude_args |-> ea]

(***************************************************************************)
(* backup: the list the for loop walks, and what follows a call            *)
(***************************************************************************)
RECURSIVE dedup(_)
dedup(l) ==
    IF l = << >> THEN << >>
    ELSE LET r == dedup(SubSeq(l, 1, Len(l) - 1))
         IN  IF \E j \in 1..Len(r) : r[j] = l[Len(l)] THEN r ELSE Append(r, l[Len(l)])

loop_directories_dedup(hc) == dedup(hc.m["directories"].l)

loop_directories(hc) == hc.m["directories"].l

\* no handler around the call: an exception leaves the loop and main
after_call_continue(exc, n) == [pc |-> "backup", i |-> n + 1]

after_call(exc, n) ==
    IF exc # "" THEN [pc |-> "error", i |-> n] ELSE [pc |-> "backup", i |-> n + 1]

(***************************************************************************)
(* run_ssh_command(admin_host, command, no_op, verbose) in an environment  *)
(* where SSH_AUTH_SOCK names an existing socket (sock_ok) or not, and the  *)
(* remote command would exit zero (exit_ok) or not.                        *)
(***************************************************************************)
run_ssh_command(call, sock_ok, exit_ok) ==
    IF ~sock_ok THEN [raised |-> "FileNotFoundError", ran |-> FALSE]
    ELSE IF call.no_op THEN [raised |-> "", ran |-> FALSE]
    ELSE IF exit_ok THEN [raised |-> "", ran |-> TRUE]
    ELSE [raised |-> "CalledProcessError", ran |-> TRUE]

(***************************************************************************)
(* The process                                                             *)
(***************************************************************************)
NoArgs == [hostname |-> "", config |-> NoPath, host_config |-> NoPath,
           no_op |-> FALSE, verbose |-> FALSE, command |-> ""]
NoFiles == [p \in {} |-> Absent]

\* os.path.exists(p) / open(p) answered for the first time with content c
Look(files, p, c) == [x \in DOMAIN files \cup {p} |-> IF x = p THEN c ELSE files[x]]

Init ==
    /\ default_global_config = DefaultGlobalLiteral
    /\ default_host_config = DefaultHostLiteral
    /\ args = NoArgs
    /\ fs = NoFiles
    /\ global_config = Unset
    /\ global_is_default = FALSE
    /\ host_config = Unset
    /\ host_config_path = ""
    /\ pc = "idle"
    /\ err = NoError
    /\ calls = << >>
    /\ results = << >>
    /\ i = 0
    /\ executed = << >>
    /\ merges = << >>
    /\ runs = 0

\* main, lines 126-145: a new invocation parses its command line
ParseArgs ==
    /\ pc \in {"idle", "done", "error"}
    /\ runs < MaxRuns
    /\ \E h \in Hostnames, c \in {NoPath, GlobalConfigPath},
          hc \in {NoPath, OverridePath}, n \in BOOLEAN, v \in BOOLEAN,
          cmd \in Commands :
            args' = [hostname |-> h, config |-> c, host_config |-> hc,
                     no_op |-> n, verbose |-> v, command |-> cmd]
    /\ runs' = runs + 1
    /\ pc' = "load_global"
    /\ fs' = NoFiles
    /\ global_config' = Unset
    /\ global_is_default' = FALSE
    /\ host_config' = Unset
    /\ host_config_path' = ""
    /\ err' = NoError
    /\ calls' = << >>
    /\ results' = << >>
    /\ i' = 0
    /\ executed' = << >>
    /\ merges' = << >>
    /\ UNCHANGED << default_global_config, default_host_config >>

\* main, line 148
LoadGlobal ==
    /\ pc = "load_global"
    /\ \E file \in (IF args.config = NoPath THEN {Absent} ELSE GlobalFiles) :
         LET r == load_global_config(args, default_global_config, file)
         IN  /\ fs' = IF args.config = NoPath THEN fs ELSE Look(fs, args.config, file)
             /\ default_global_config' = r.dflt
             /\ merges' = merges \o r.merges
             /\ IF r.raised # ""
                THEN /\ pc' = "error"
                     /\ err' = Raise(r.raised, "load_global_config")
                     /\ UNCHANGED << global_config, global_is_default >>
                ELSE /\ pc' = "set_dir"
                     /\ global_config' = r.config
                     /\ global_is_default' = r.is_default
                     /\ err' = err
    /\ UNCHANGED << default_host_config, args, host_config, host_config_path,
                    calls, results, i, executed, runs >>

\* main, lines 154-155 (the directory creation of lines 162-170 changes
\* nothing that the rest of the run reads)
SetHostBackupDir ==
    /\ pc = "set_dir"
    /\ IF IsMap(global_config)
       THEN /\ global_config' = assign_host_backup_dir(args, global_config)
            /\ default_global_config' =
                 IF global_is_default
                 THEN assign_host_backup_dir(args, global_config)
                 ELSE default_global_config
            /\ pc' = "load_host"
            /\ err' = err
       ELSE /\ pc' = "error"
            /\ err' = Raise("TypeError", "main")
            /\ UNCHANGED << global_config, default_global_config >>
    /\ UNCHANGED << default_host_config, args, fs, global_is_default, host_config,
                    host_config_path, calls, results, i, executed, merges, runs >>

\* main, line 173
LoadHost ==
    /\ pc = "load_host"
    /\ host_config_path' = host_state_path(global_config)
    /\ \E state \in HostStateFiles,
          override \in (IF args.host_config = NoPath THEN {Absent} ELSE OverrideFiles) :
         LET r == load_host_config(args, default_host_config, state, override)
             seen == Look(fs, host_state_path(global_config), state)
         IN  /\ fs' = IF args.host_config = NoPath THEN seen
                      ELSE Look(seen, args.host_config, override)
             /\ default_host_config' = r.dflt
             /\ merges' = merges \o r.merges
             /\ IF r.raised # ""
                THEN /\ pc' = "error"
                     /\ err' = Raise(r.raised, "load_host_config")
                     /\ host_config' = host_config
                ELSE /\ pc' = "dispatch"
                     /\ host_config' = r.config
                     /\ err' = err
    /\ UNCHANGED << default_global_config, args, global_config, global_is_default,
                    calls, results, i, executed, runs >>

\* main, lines 179-182, up to backup's evaluation of host_config["directories"]
Dispatch ==
    /\ pc = "dispatch"
    /\ IF args.command = "restore"
       THEN pc' = "done" /\ err' = err /\ i' = i
       ELSE IF Has(host_config, "directories")
            THEN pc' = "backup" /\ err' = err /\ i' = 1
            ELSE /\ pc' = "error"
                 /\ err' = Raise(IF IsMap(host_config) THEN "KeyError" ELSE "TypeError",
                                 "backup")
                 /\ i' = i
    /\ UNCHANGED << default_global_config, default_host_config, args, fs,
                    global_config, global_is_default, host_config, host_config_path,
                    calls, results, executed, merges, runs >>

\* backup, lines 117-119: the next directory, or the end of the list;
\* backup_directory up to its call of run_ssh_command
BackupNext ==
    /\ pc = "backup"
    /\ IF i > Len(loop_directories(host_config))
       THEN pc' = "done" /\ err' = err /\ calls' = calls
       ELSE IF Has(host_config, "exclusions")
            THEN /\ calls' = Append(calls,
                       backup_directory(args.hostname, loop_directories(host_config)[i],
                                        global_config, host_config, args))
                 /\ pc' = "ssh"
                 /\ err' = err
            ELSE /\ pc' = "error"
                 /\ err' = Raise("KeyError", "backup_directory")
                 /\ calls' = calls
    /\ UNCHANGED << default_global_config, default_host_config, args, fs,
                    global_config, global_is_default, host_config, host_config_path,
                    results, i, executed, merges, runs >>

\* run_ssh_command, lines 85-96, and the return into backup's loop
RunSsh ==
    /\ pc = "ssh"
    /\ \E sock_ok \in BOOLEAN, exit_ok \in BOOLEAN :
         LET call == calls[Len(calls)]
             r == run_ssh_command(call, sock_ok, exit_ok)
             nxt == after_call(r.raised, i)
         IN  /\ executed' = IF r.ran THEN Append(executed, call.command) ELSE executed
             /\ results' = Append(results, IF r.raised = "" THEN "ok" ELSE r.raised)
             /\ pc' = nxt.pc
             /\ i' = nxt.i
             /\ err' = IF nxt.pc = "error" THEN Raise(r.raised, "run_ssh_command") ELSE err
    /\ UNCHANGED << default_global_config, default_host_config, args, fs,
                    global_config, global_is_default, host_config, host_config_path,
                    calls, merges, runs >>

Next ==
    \/ ParseArgs
    \/ LoadGlobal
    \/ SetHostBackupDir
    \/ LoadHost
    \/ Dispatch
    \/ BackupNext
    \/ RunSsh

Spec == Init /\ [][Next]_vars

(***************************************************************************)
(* Vocabulary of the properties                                            *)
(***************************************************************************)
\* main has passed line 155 in the current run
Assigned ==
    \/ pc \in {"load_host", "dispatch", "backup", "ssh", "done"}
    \/ pc = "error" /\ err.at \in {"load_host_config", "backup", "backup_directory",
                                   "run_ssh_command"}

\* load_host_config has returned in the current run
HostLoaded ==
    \/ pc \in {"dispatch", "backup", "ssh", "done"}
    \/ pc = "error" /\ err.at \in {"backup", "backup_directory", "run_ssh_command"}

\* the layers load_host_config read in the current run
StateLayer == fs[host_config_path]
OverrideLayer == IF args.host_config = NoPath THEN Absent ELSE fs[args.host_config]
HostMerges == SelectSeq(merges, LAMBDA e : e.fn = "load_host_config")
BuiltinHostLayer == IF HostMerges = << >> THEN default_host_config ELSE HostMerges[1].base

ListAt(layer, k) == IF Has(layer, k) THEN layer.m[k].l ELSE << >>
ExclusionKeys(layer) ==
    IF Has(layer, "exclusions") THEN DOMAIN layer.m["exclusions"].m ELSE {}
ExclusionsAt(layer, d) ==
    IF d \in ExclusionKeys(layer) THEN layer.m["exclusions"].m[d].l ELSE << >>

\* result is base deep-merged with overlay; sequences met at the same key
\* are concatenated when concat, replaced by the overlay's otherwise
RECURSIVE MergedAs(_, _, _, _)
MergedAs(base, overlay, result, concat) ==
    IF IsMap(base) /\ IsMap(overlay)
    THEN /\ IsMap(result)
         /\ DOMAIN result.m = DOMAIN base.m \cup DOMAIN overlay.m
         /\ \A k \in DOMAIN result.m :
              IF k \notin DOMAIN overlay.m THEN result.m[k] = base.m[k]
              ELSE IF k \notin DOMAIN base.m THEN result.m[k] = overlay.m[k]
              ELSE MergedAs(base.m[k], overlay.m[k], result.m[k], concat)
    ELSE IF concat /\ IsList(base) /\ IsList(overlay)
    THEN result = List(base.l \o overlay.l)
    ELSE result = overlay

MappingMerge(e) == IsMap(e.base) /\ IsMap(e.overlay)

C2_DefaultsKeepLiteralValues ==
    /\ default_global_config = DefaultGlobalLiteral
    /\ default_host_config = DefaultHostLiteral

(***************************************************************************)
(* C3                                                                      *)
(***************************************************************************)
\* C3: every run_ssh_command invocation made by backup_directory carries
\* no_op = args.no_op and verbose = args.verbose.
C3_NoOpFollowsArgs ==
    \A j \in 1..Len(calls) :
        /\ calls[j].no_op = args.no_op
        /\ calls[j].verbose = args.verbose

(***************************************************************************)
(* C4                                                                      *)
(***************************************************************************)
\* C4: when the path given as --config or --host-config does not exist, the
\* run has ended with FileNotFoundError raised by that loader, the loader
\* returned no policy, and no remote call was made.
C4_MissingFileIsFatal ==
    /\ (args.config # NoPath /\ args.config \in DOMAIN fs /\ fs[args.config] = Absent)
         => /\ pc = "error"
            /\ err = Raise("FileNotFoundError", "load_global_config")
            /\ global_config = Unset
            /\ host_config = Unset
            /\ calls = << >>
            /\ executed = << >>
    /\ (args.host_config # NoPath /\ args.host_config \in DOMAIN fs
          /\ fs[args.host_config] = Absent)
         => /\ pc = "error"
            /\ err = Raise("FileNotFoundError", "load_host_config")
            /\ host_config = Unset
            /\ calls = << >>
            /\ executed = << >>

\* the override path is missing after the persisted host state was merged
C4_Witness ==
    /\ pc = "error"
    /\ args.host_config # NoPath
    /\ args.host_config \in DOMAIN fs
    /\ fs[args.host_config] = Absent
    /\ IsMap(StateLayer)
    /\ HostMerges # << >>

(***************************************************************************)
(* C5                                                                      *)
(***************************************************************************)
\* C5: the j-th remote call of a backup is for the j-th entry of
\* host_config["directories"], and a backup that ends normally has made one
\* call per entry, repeated entries included.
C5_OneCallPerEntryInOrder ==
    /\ \A j \in 1..Len(calls) :
         /\ Has(host_config, "directories")
         /\ j <= Len(host_config.m["directories"].l)
         /\ calls[j].directory = host_config.m["directories"].l[j]
    /\ (pc = "done" /\ args.command = "backup")
         => Len(calls) = Len(host_config.m["directories"].l)

C5_Witness ==
    /\ pc = "done"
    /\ args.command = "backup"
    /\ \E j, k \in 1..Len(calls) : j < k /\ calls[j].directory = calls[k].directory

(***************************************************************************)
(* C6                                                                      *)
(***************************************************************************)
\* C6: each command goes to global_config["admin_host"], reads from
\* <hostname>:<d> with the host name as typed, writes to host_backup_dir + d,
\* and carries one --exclude flag per entry of exclusions.get(d, []), in order
\* and none from any other directory's list.
C6_CommandShape ==
    \A j \in 1..Len(calls) :
        LET c == calls[j]
            d == calls[j].directory
            ex == ExclusionsAt(host_config, d)
        IN  /\ c.admin_host = global_config.m["admin_host"].s
            /\ c.src = args.hostname \o ":" \o d
            /\ c.dst = global_config.m["host_backup_dir"].s \o d
            /\ Len(c.exclude_args) = Len(ex)
            /\ \A k \in 1..Len(ex) : c.exclude_args[k] = "--exclude=" \o ex[k]
            /\ c.command = "rsync -avxHP " \o join(" ", c.exclude_args) \o " "
                             \o c.src \o " " \o c.dst
            /\ (d = "/var" /\ ex = << "/var/lib/yum" >> /\ args.hostname = "testhost"
                  /\ global_config.m["host_backup_dir"].s = "/tmp/test_backups/TESTHOST")
                 => c.command = "rsync -avxHP --exclude=/var/lib/yum testhost:/var /tmp/test_backups/TESTHOST/var"
            /\ (d = "/etc" /\ ex = << >> /\ args.hostname = "testhost"
                  /\ global_config.m["host_backup_dir"].s = "/tmp/test_backups/TESTHOST")
                 => c.command = "rsync -avxHP  testhost:/etc /tmp/test_backups/TESTHOST/etc"

C6_Witness ==
    /\ args.hostname = "Web01"
    /\ \E j \in 1..Len(calls) :
         /\ calls[j].directory = "/var"
         /\ Len(calls[j].exclude_args) = 2
    /\ \E j \in 1..Len(calls) :
         /\ calls[j].directory = "/srv"
         /\ calls[j].exclude_args = << >>
    /\ "/home" \in ExclusionKeys(host_config)

(***************************************************************************)
(* C7                                                                      *)
(***************************************************************************)
\* the host name as main normalizes it: uppercased iff uppercase_hostname
C7_Normalized ==
    IF global_config.m["uppercase_hostname"] = Bool(TRUE)
    THEN upper(args.hostname) ELSE args.hostname

\* once assigned, host_backup_dir is backup_basedir/normalize(hostname),
\* whatever a merged layer or an earlier run left under that key, and the
\* host state path is computed from it and only after it
C7_Derived ==
    /\ Assigned =>
         /\ Has(global_config, "host_backup_dir")
         /\ global_config.m["host_backup_dir"] =
              Str(global_config.m["backup_basedir"].s \o "/" \o C7_Normalized)
         /\ host_config_path # "" =>
              host_config_path = global_config.m["host_backup_dir"].s \o "/config.yml"
    /\ ~Assigned => host_config_path = ""

\* a step inside one run leaves an assigned host_backup_dir as it is
C7_Stable ==
    (Assigned /\ Assigned') =>
        global_config'.m["host_backup_dir"] = global_config.m["host_backup_dir"]

\* C7: host_backup_dir is always derived from backup_basedir and the
\* normalized host name, is assigned before the host state path is computed,
\* and does not change afterwards during the run.
C7_HostBackupDirDerivedAndStable == [](C7_Derived) /\ [][C7_Stable]_vars

\* a layer set host_backup_dir, the flag is off, and the run got to the end
C7_Witness ==
    /\ pc = "done"
    /\ runs = 2
    /\ args.config # NoPath
    /\ Has(fs[args.config], "host_backup_dir")
    /\ default_global_config.m["uppercase_hostname"] = Bool(FALSE)
    /\ global_config.m["host_backup_dir"] = Str("/tmp/backupdir/Web01")
    /\ host_config_path = "/tmp/backupdir/Web01/config.yml"

(***************************************************************************)
(* C8                                                                      *)
(***************************************************************************)
\* the value of key k in the highest-precedence host layer that defines it
C8_HighestLayer(k) ==
    IF Has(OverrideLayer, k) THEN OverrideLayer.m[k]
    ELSE IF Has(StateLayer, k) THEN StateLayer.m[k]
    ELSE BuiltinHostLayer.m[k]

C8_MappingLayers ==
    /\ HostLoaded
    /\ StateLayer = Absent \/ IsMap(StateLayer)
    /\ OverrideLayer = Absent \/ IsMap(OverrideLayer)

C9_OnlyMappingsAreMerged ==
    /\ \A j \in 1..Len(merges) : IsMap(merges[j].overlay)
    /\ global_config # Unset =>
         /\ IsMap(global_config)
         /\ DOMAIN DefaultGlobalLiteral.m \subseteq DOMAIN global_config.m
    /\ host_config # Unset =>
         /\ IsMap(host_config)
         /\ DOMAIN DefaultHostLiteral.m \subseteq DOMAIN host_config.m

(***************************************************************************)
(* C10                                                                     *)
(***************************************************************************)
\* C10: at most one remote call is in progress, a call starts only when all
\* earlier ones have returned, and a call that raises is the last one of the
\* run: main ends with that exception.
C10_SequentialFailFast ==
    /\ Len(results) <= Len(calls)
    /\ Len(calls) <= Len(results) + 1
    /\ (Len(calls) = Len(results) + 1) <=> (pc = "ssh")
    /\ \A j \in 1..Len(results) :
         results[j] # "ok" =>
            /\ j = Len(calls)
            /\ pc = "error"
            /\ err = Raise(results[j], "run_ssh_command")

\* the third call failed and directories were left
C10_Witness ==
    /\ pc = "error"
    /\ err.at = "run_ssh_command"
    /\ Len(calls) = 3
    /\ results = << "ok", "ok", "FileNotFoundError" >>
    /\ Len(host_config.m["directories"].l) > 3

====
